---- MODULE Spec2Model ----
(***************************************************************************)
(* The client-side authentication controller of the Savitara web app:      *)
(* AuthProvider (context/AuthContext.jsx) over services/firebase.js.       *)
(*                                                                         *)
(* JavaScript is single-threaded: an async function runs without           *)
(* interruption from its call up to its first pending await, and again     *)
(* from the settlement of that await up to the next one.  Each such        *)
(* segment is one action here.  A suspended call is a task in `inflight`   *)
(* (the startup effect has its own position, `startup`).                   *)
(* `last` records the segment that ran most recently: the operation, how   *)
(* the promise it returned stands, the request it was about, and its       *)
(* observable effects in program order.                                    *)
(***************************************************************************)
EXTENDS Integers, Sequences, FiniteSets, Bags, TLC

\* ---------------------------------------------------------------- bounds
\* Identity tokens that can be alive (pending, in an exchange, or exchanged)
\* at the same time.
MaxIdTokens == 2
\* Distinct session-token pairs the backend hands out.
MaxSessions == 2
\* Controller calls suspended at the same time (startup not counted): in
\* the whole controller, and in the Google sign-in flow taken alone.
MaxInFlight == 1
MaxGoogleInFlight == 2

\* ---------------------------------------------------------------- values
Null == "null"
Undefined == "undefined"

\* Every token is a record, so that tokens of different origin compare.
NoToken == [kind |-> Null, n |-> 0]
IdToken(k) == [kind |-> "google", n |-> k]
IdTokens == {IdToken(k) : k \in 1..MaxIdTokens}
AccessTokenOf(s) == [kind |-> "access", n |-> s]
RefreshTokenOf(s) == [kind |-> "refresh", n |-> s]

Roles == {"grihasta", "acharya"}

\* The user summary of a backend response, as far as the controller reads
\* it: `onboarded` and the legacy `onboarding_completed`, which may be absent
\* (an explicit false reads like an absent field, both being falsy, and
\* a record with both flags true navigates like one with `onboarded` true).
UserRecords ==
    {[onboarded |-> "true", onboarding_completed |-> Undefined],
     [onboarded |-> "false", onboarding_completed |-> Undefined],
     [onboarded |-> "false", onboarding_completed |-> "true"]}
NoUser == [onboarded |-> Null, onboarding_completed |-> Null]

\* JavaScript truthiness of a flag.
Truthy(x) == x = "true"

\* A backend success envelope {access_token, refresh_token, user}.
Responses ==
    {[access_token |-> AccessTokenOf(s), refresh_token |-> RefreshTokenOf(s),
      user |-> u] : s \in 1..MaxSessions, u \in UserRecords}

UserEmail == "a@x.com"
NoPending == [idToken |-> NoToken, userEmail |-> Null]

\* The value a call returns: undefined, or {needsRoleSelection, userEmail}.
NoRet == [needsRoleSelection |-> FALSE, userEmail |-> Undefined]

VARIABLES
    user,               \* useState(null)
    loading,            \* useState(true)
    pendingGoogleAuth,  \* useState(null)
    localStorage,       \* the two durable keys
    startup,            \* position of the mount effect: awaiting the
                        \* redirect result ("redirect", or "returned" when
                        \* this page load is the provider's return),
                        \* awaiting /auth/me, stopped with a recovered
                        \* credential, or done
    inflight,           \* bag of suspended controller calls
    capacity,           \* how many calls may be suspended at once in this run
    mobile,             \* isMobileDevice() of this browser
    redirectArmed,      \* signInWithRedirect has run in this page: the
                        \* browser is leaving for the provider
    exchanged,          \* identity token -> its successful exchanges (0, 1, more)
    last,               \* the segment that ran most recently
    screen              \* the login page: its overlay and its role dialog

vars == <<user, loading, pendingGoogleAuth, localStorage, startup, inflight,
          capacity, mobile, redirectArmed, exchanged, last, screen>>

\* ------------------------------------------------------------- the store
EmptyStore == [accessToken |-> NoToken, refreshToken |-> NoToken]

\* localStorage.removeItem('accessToken'); localStorage.removeItem('refreshToken')
RemoveTokens(store) == EmptyStore

\* localStorage.setItem('accessToken', ..); localStorage.setItem('refreshToken', ..)
\* fault: "none", or the write that throws ("accessToken" / "refreshToken").
SetTokens(store, resp, fault) ==
    CASE fault = "none" ->
            [accessToken |-> resp.access_token, refreshToken |-> resp.refresh_token]
      [] fault = "refreshToken" ->
            [store EXCEPT !.accessToken = resp.access_token]
      [] OTHER -> store

\* An observable effect: <<kind, argument, mode>>.
Eff(kind, arg) == <<kind, arg, "">>
Navigate(to, mode) == <<"navigate", to, mode>>

SetTokensEffects(fault) ==
    CASE fault = "none" ->
            <<Eff("setItem", "accessToken"), Eff("setItem", "refreshToken")>>
      [] fault = "refreshToken" ->
            <<Eff("setItem", "accessToken"), Eff("throw", "setItem")>>
      [] OTHER -> <<Eff("throw", "setItem")>>

StorageFaults == {"accessToken", "refreshToken"}

\* ------------------------------------------------------------ bookkeeping
Task(op, tok, role) == [op |-> op, idToken |-> tok, role |-> role]
NoTask == Task(Null, NoToken, Null)

Segment(op, phase, outcome, task, eff, ret) ==
    [op |-> op, phase |-> phase, outcome |-> outcome, task |-> task,
     eff |-> eff, ret |-> ret]

Suspend(t) == inflight (+) SetToBag({t})
Resume(t) == inflight (-) SetToBag({t})
Suspended(t) == BagIn(t, inflight)
CanSuspend == BagCardinality(inflight) < capacity

Has(eff, e) == \E i \in 1..Len(eff) : eff[i] = e
Kinds(eff, kind) == {i \in 1..Len(eff) : eff[i][1] = kind}

\* The provider issues a fresh identity token at every sign-in.  A token
\* that is neither pending, nor in an exchange, nor exchanged is referred to
\* nowhere (not even by the last segment), so its name stands for a fresh one.
AliveIdTokens ==
    {pendingGoogleAuth.idToken, last.task.idToken}
        \cup {t.idToken : t \in BagToSet(inflight)}
        \cup {tok \in IdTokens : exchanged[tok] > 0}
FreshIdTokens == IdTokens \ AliveIdTokens
FreshIdToken == CHOOSE tok \in FreshIdTokens : TRUE

\* The login page as mounted: no overlay, the role dialog closed with
\* useState('grihasta') as its selection, no dialog callback fired yet.
ScreenInit ==
    [mounted |-> TRUE, googleLoading |-> FALSE, showRoleDialog |-> FALSE,
     selectedRole |-> "grihasta", onSelectRole |-> FALSE, onClose |-> FALSE]

\* ------------------------------------------------------------------ Init
\* The state right after AuthProvider mounts for the first time: nothing
\* stored, the mount effect awaiting checkRedirectResult().
Mounted ==
    /\ user = NoUser
    /\ loading = TRUE
    /\ pendingGoogleAuth = NoPending
    /\ localStorage = EmptyStore
    /\ startup = "redirect"
    /\ inflight = EmptyBag
    /\ mobile \in BOOLEAN
    /\ redirectArmed = FALSE
    /\ exchanged = [tok \in IdTokens |-> 0]
    /\ last = Segment("mount", "call", "suspended", NoTask, <<>>, NoRet)
    /\ screen = ScreenInit

Init == Mounted /\ capacity = MaxInFlight

\* A full page load (reload, or the return from the provider's redirect):
\* the JavaScript state is rebuilt, suspended calls are gone, the store stays.
\* A redirect result is there for this load when signInWithRedirect ran
\* before it.
PageLoad ==
    /\ user' = NoUser
    /\ loading' = TRUE
    /\ pendingGoogleAuth' = NoPending
    /\ startup' = IF redirectArmed THEN "returned" ELSE "redirect"
    /\ inflight' = EmptyBag
    /\ last' = Segment("mount", "call", "suspended", NoTask, <<>>, NoRet)
    /\ redirectArmed' = FALSE
    /\ UNCHANGED <<localStorage, capacity, mobile, exchanged>>
\* Variant: only the access token is looked at before the identity check.
CheckAuthCall_AccessTokenOnly(before) ==
    IF localStorage.accessToken = NoToken
    THEN /\ loading' = FALSE
         /\ startup' = "done"
         /\ last' = Segment("checkAuth", "call", "resolved", NoTask,
                            before \o <<Eff("setLoading", "false")>>, NoRet)
    ELSE /\ loading' = loading
         /\ startup' = "me"
         /\ last' = Segment("checkAuth", "call", "suspended", NoTask,
                            before \o <<Eff("GET", "/auth/me")>>, NoRet)

\* --------------------------------------------------------------- startup
\* checkAuth(), from its call to its first await (or its return); before
\* is what initAuth did in the same turn, ahead of the call.
CheckAuthCall(before) ==
    IF localStorage.accessToken = NoToken \/ localStorage.refreshToken = NoToken
    THEN /\ loading' = FALSE
         /\ startup' = "done"
         /\ last' = Segment("checkAuth", "call", "resolved", NoTask,
                            before \o <<Eff("setLoading", "false")>>, NoRet)
    ELSE /\ loading' = loading
         /\ startup' = "me"
         /\ last' = Segment("checkAuth", "call", "suspended", NoTask,
                            before \o <<Eff("GET", "/auth/me")>>, NoRet)

\* What the provider's redirect-result lookup can do inside
\* checkRedirectResult(): hand back a result whose identity token is then
\* fetched, hand back nothing, or throw (getRedirectResult or getIdToken).
RedirectLookups == {"result", "none", "error"}

\* Variant: the catch block of checkRedirectResult rethrows.
CheckRedirectResult_Rethrows(lookup) ==
    CASE lookup = "result" ->
            [outcome |-> "resolved", value |-> "credential",
             log |-> Eff("console.log", "Got redirect result")]
      [] lookup = "none" ->
            [outcome |-> "resolved", value |-> Null,
             log |-> Eff("console.log", "No redirect result found")]
      [] lookup = "error" ->
            [outcome |-> "rejected", value |-> Null,
             log |-> Eff("console.error", "Redirect result error")]

\* checkRedirectResult(): {user, idToken} for a result, null for none, and
\* null again from the catch block when the lookup threw.
CheckRedirectResult(lookup) ==
    CASE lookup = "result" ->
            [outcome |-> "resolved", value |-> "credential",
             log |-> Eff("console.log", "Got redirect result")]
      [] lookup = "none" ->
            [outcome |-> "resolved", value |-> Null,
             log |-> Eff("console.log", "No redirect result found")]
      [] lookup = "error" ->
            [outcome |-> "resolved", value |-> Null,
             log |-> Eff("console.error", "Redirect result error")]

\* What initAuth has done when it calls checkAuth(): the lookup, what
\* checkRedirectResult made of it, and its own catch block if that threw.
InitAuthBeforeCheckAuth(lookup) ==
    LET r == CheckRedirectResult(lookup) IN
    <<Eff("getRedirectResult", lookup), r.log>> \o
    (IF r.outcome = "rejected"
     THEN <<Eff("checkRedirectResult", "throws"),
            Eff("console.warn", "No redirect result")>>
     ELSE <<Eff("checkRedirectResult", "null")>>)

\* Variant: the recovered credential is exchanged at once, with no role.
InitAuthRedirectCredential_AutoExchange ==
    /\ startup = "returned"
    /\ FreshIdTokens # {}
    /\ pendingGoogleAuth' = [idToken |-> FreshIdToken, userEmail |-> UserEmail]
    /\ loading' = FALSE
    /\ startup' = "recovered"
    /\ inflight' = Suspend(Task("completeGoogleLogin", FreshIdToken, Null))
    /\ last' = Segment("initAuth", "resume", "suspended",
                       Task("initAuth", FreshIdToken, Null),
                       <<Eff("setPendingGoogleAuth", "credential"),
                         Eff("setLoading", "false"),
                         Eff("POST", "/auth/google")>>, NoRet)
    /\ UNCHANGED <<user, localStorage, capacity, mobile,
                   redirectArmed, exchanged>>
\* Variant: no return after the credential is parked; initAuth goes on to
\* checkAuth().
InitAuthRedirectCredential_ThenCheckAuth ==
    /\ startup = "returned"
    /\ FreshIdTokens # {}
    /\ pendingGoogleAuth' = [idToken |-> FreshIdToken, userEmail |-> UserEmail]
    /\ loading' = FALSE
    /\ startup' = IF localStorage.accessToken = NoToken
                     \/ localStorage.refreshToken = NoToken
                  THEN "done" ELSE "me"
    /\ last' = Segment("initAuth", "resume",
                       IF localStorage.accessToken = NoToken
                          \/ localStorage.refreshToken = NoToken
                       THEN "resolved" ELSE "suspended",
                       Task("initAuth", FreshIdToken, Null),
                       <<Eff("setPendingGoogleAuth", "credential"),
                         Eff("setLoading", "false")>> \o
                       (IF localStorage.accessToken = NoToken
                           \/ localStorage.refreshToken = NoToken
                        THEN <<Eff("setLoading", "false")>>
                        ELSE <<Eff("GET", "/auth/me")>>), NoRet)
    /\ UNCHANGED <<user, localStorage, inflight, capacity, mobile,
                   redirectArmed, exchanged>>

\* initAuth resumes with a credential from checkRedirectResult().
InitAuthRedirectCredential ==
    /\ startup = "returned"
    /\ LET r == CheckRedirectResult("result") IN
          r.outcome = "resolved" /\ r.value # Null
    /\ FreshIdTokens # {}
    /\ pendingGoogleAuth' = [idToken |-> FreshIdToken, userEmail |-> UserEmail]
    /\ loading' = FALSE
    /\ startup' = "recovered"
    /\ last' = Segment("initAuth", "resume", "resolved",
                       Task("initAuth", FreshIdToken, Null),
                       <<Eff("setPendingGoogleAuth", "credential"),
                         Eff("setLoading", "false")>>, NoRet)
    /\ UNCHANGED <<user, localStorage, inflight, capacity, mobile,
                   redirectArmed, exchanged>>

\* initAuth resumes without a credential (no redirect result, or a provider
\* error that checkRedirectResult swallowed) and goes on to checkAuth().
InitAuthNoRedirect ==
    /\ startup \in {"redirect", "returned"}
    /\ \E lookup \in RedirectLookups :
          LET r == CheckRedirectResult(lookup) IN
          /\ r.outcome = "rejected" \/ r.value = Null
          /\ CheckAuthCall(InitAuthBeforeCheckAuth(lookup))
    /\ UNCHANGED <<user, pendingGoogleAuth, localStorage, inflight, capacity,
                   mobile, redirectArmed, exchanged>>

\* checkAuth: GET /auth/me answered 2xx.
CheckAuthMeOk ==
    /\ startup = "me"
    /\ \E u \in UserRecords : user' = u
    /\ loading' = FALSE
    /\ startup' = "done"
    /\ last' = Segment("checkAuth", "resume", "resolved", NoTask,
                       <<Eff("response", "2xx"), Eff("setUser", "userData"),
                         Eff("setLoading", "false")>>, NoRet)
    /\ UNCHANGED <<pendingGoogleAuth, localStorage, inflight, capacity, mobile,
                   redirectArmed, exchanged>>

\* Variant: the failed identity check leaves the tokens in the store.
CheckAuthMeFail_KeepsTokens ==
    /\ startup = "me"
    /\ user' = NoUser
    /\ loading' = FALSE
    /\ startup' = "done"
    /\ last' = Segment("checkAuth", "resume", "resolved", NoTask,
                       <<Eff("response", "error"),
                         Eff("setUser", Null), Eff("setLoading", "false")>>,
                       NoRet)
    /\ UNCHANGED <<pendingGoogleAuth, localStorage, inflight, capacity, mobile,
                   redirectArmed, exchanged>>
\* Variant: no finally block; the failed identity check leaves loading set.
CheckAuthMeFail_LoadingKept ==
    /\ startup = "me"
    /\ localStorage' = RemoveTokens(localStorage)
    /\ user' = NoUser
    /\ loading' = loading
    /\ startup' = "done"
    /\ last' = Segment("checkAuth", "resume", "resolved", NoTask,
                       <<Eff("response", "error"),
                         Eff("removeItem", "accessToken"),
                         Eff("removeItem", "refreshToken"),
                         Eff("setUser", Null)>>, NoRet)
    /\ UNCHANGED <<pendingGoogleAuth, inflight, capacity, mobile,
                   redirectArmed, exchanged>>

\* checkAuth: GET /auth/me failed.
CheckAuthMeFail ==
    /\ startup = "me"
    /\ localStorage' = RemoveTokens(localStorage)
    /\ user' = NoUser
    /\ loading' = FALSE
    /\ startup' = "done"
    /\ last' = Segment("checkAuth", "resume", "resolved", NoTask,
                       <<Eff("response", "error"),
                         Eff("removeItem", "accessToken"),
                         Eff("removeItem", "refreshToken"),
                         Eff("setUser", Null), Eff("setLoading", "false")>>, NoRet)
    /\ UNCHANGED <<pendingGoogleAuth, inflight, capacity, mobile,
                   redirectArmed, exchanged>>

\* -------------------------------------------------- email login, register
\* Variant: the legacy flag is not consulted.
Destination_OnboardedOnly(u) ==
    IF Truthy(u.onboarded) THEN "/" ELSE "/onboarding"

\* isOnboarded ? '/' : '/onboarding'
Destination(u) ==
    IF Truthy(u.onboarded) \/ Truthy(u.onboarding_completed)
    THEN "/" ELSE "/onboarding"

LoginWithEmailCall ==
    /\ CanSuspend
    /\ inflight' = Suspend(Task("loginWithEmail", NoToken, Null))
    /\ last' = Segment("loginWithEmail", "call", "suspended",
                       Task("loginWithEmail", NoToken, Null),
                       <<Eff("POST", "/auth/login")>>, NoRet)
    /\ UNCHANGED <<user, loading, pendingGoogleAuth, localStorage, startup,
                   capacity, mobile, redirectArmed, exchanged>>
\* Variant: the navigation is issued before the session is stored.
LoginWithEmailOk_NavigatesFirst ==
    LET t == Task("loginWithEmail", NoToken, Null) IN
    /\ Suspended(t)
    /\ inflight' = Resume(t)
    /\ \E resp \in Responses :
        /\ localStorage' = SetTokens(localStorage, resp, "none")
        /\ user' = resp.user
        /\ last' = Segment("loginWithEmail", "resume", "resolved", t,
                           <<Eff("response", "2xx"),
                             Navigate(Destination(resp.user), "push")>> \o
                           SetTokensEffects("none") \o
                           <<Eff("setUser", "userData"),
                             Eff("toast.success", "Login successful!")>>, NoRet)
    /\ UNCHANGED <<loading, pendingGoogleAuth, startup, capacity, mobile,
                   redirectArmed, exchanged>>

\* POST /auth/login answered 2xx: both tokens stored, user set, navigation.
LoginWithEmailOk ==
    LET t == Task("loginWithEmail", NoToken, Null) IN
    /\ Suspended(t)
    /\ inflight' = Resume(t)
    /\ \E resp \in Responses :
        /\ localStorage' = SetTokens(localStorage, resp, "none")
        /\ user' = resp.user
        /\ last' = Segment("loginWithEmail", "resume", "resolved", t,
                           <<Eff("response", "2xx")>> \o
                           SetTokensEffects("none") \o
                           <<Eff("setUser", "userData"),
                             Navigate(Destination(resp.user), "push"),
                             Eff("toast.success", "Login successful!")>>, NoRet)
    /\ UNCHANGED <<loading, pendingGoogleAuth, startup, capacity, mobile,
                   redirectArmed, exchanged>>

\* POST /auth/login answered 2xx and a localStorage.setItem threw: the catch
\* block reports and rethrows.
LoginWithEmailStorageFault ==
    LET t == Task("loginWithEmail", NoToken, Null) IN
    /\ Suspended(t)
    /\ inflight' = Resume(t)
    /\ \E resp \in Responses, fault \in StorageFaults :
        /\ localStorage' = SetTokens(localStorage, resp, fault)
        /\ last' = Segment("loginWithEmail", "resume", "rejected", t,
                           <<Eff("response", "2xx")>> \o
                           SetTokensEffects(fault) \o
                           <<Eff("toast.error", "Login failed")>>, NoRet)
    /\ UNCHANGED <<user, loading, pendingGoogleAuth, startup, capacity, mobile,
                   redirectArmed, exchanged>>

\* POST /auth/login failed.
LoginWithEmailFail ==
    LET t == Task("loginWithEmail", NoToken, Null) IN
    /\ Suspended(t)
    /\ inflight' = Resume(t)
    /\ last' = Segment("loginWithEmail", "resume", "rejected", t,
                       <<Eff("response", "error"),
                         Eff("toast.error", "Login failed")>>, NoRet)
    /\ UNCHANGED <<user, loading, pendingGoogleAuth, localStorage, startup,
                   capacity, mobile, redirectArmed, exchanged>>

RegisterWithEmailCall ==
    /\ CanSuspend
    /\ loading' = TRUE
    /\ inflight' = Suspend(Task("registerWithEmail", NoToken, Null))
    /\ last' = Segment("registerWithEmail", "call", "suspended",
                       Task("registerWithEmail", NoToken, Null),
                       <<Eff("setLoading", "true"), Eff("POST", "/auth/register")>>,
                       NoRet)
    /\ UNCHANGED <<user, pendingGoogleAuth, localStorage, startup, capacity, mobile,
                   redirectArmed, exchanged>>

RegisterWithEmailOk ==
    LET t == Task("registerWithEmail", NoToken, Null) IN
    /\ Suspended(t)
    /\ inflight' = Resume(t)
    /\ loading' = FALSE
    /\ \E resp \in Responses :
        /\ localStorage' = SetTokens(localStorage, resp, "none")
        /\ user' = resp.user
        /\ last' = Segment("registerWithEmail", "resume", "resolved", t,
                           <<Eff("response", "2xx")>> \o
                           SetTokensEffects("none") \o
                           <<Eff("setUser", "userData"),
                             Navigate("/onboarding", "push"),
                             Eff("toast.success", "Registration successful!"),
                             Eff("setLoading", "false")>>, NoRet)
    /\ UNCHANGED <<pendingGoogleAuth, startup, capacity, mobile, redirectArmed,
                   exchanged>>

\* POST /auth/register answered 2xx and a localStorage.setItem threw.
RegisterWithEmailStorageFault ==
    LET t == Task("registerWithEmail", NoToken, Null) IN
    /\ Suspended(t)
    /\ inflight' = Resume(t)
    /\ loading' = FALSE
    /\ \E resp \in Responses, fault \in StorageFaults :
        /\ localStorage' = SetTokens(localStorage, resp, fault)
        /\ last' = Segment("registerWithEmail", "resume", "rejected", t,
                           <<Eff("response", "2xx")>> \o
                           SetTokensEffects(fault) \o
                           <<Eff("toast.error", "Registration failed"),
                             Eff("setLoading", "false")>>, NoRet)
    /\ UNCHANGED <<user, pendingGoogleAuth, startup, capacity, mobile,
                   redirectArmed, exchanged>>

\* POST /auth/register failed.
RegisterWithEmailFail ==
    LET t == Task("registerWithEmail", NoToken, Null) IN
    /\ Suspended(t)
    /\ inflight' = Resume(t)
    /\ loading' = FALSE
    /\ last' = Segment("registerWithEmail", "resume", "rejected", t,
                       <<Eff("response", "error"),
                         Eff("toast.error", "Registration failed"),
                         Eff("setLoading", "false")>>, NoRet)
    /\ UNCHANGED <<user, pendingGoogleAuth, localStorage, startup, capacity, mobile,
                   redirectArmed, exchanged>>
\* Variant: a credential that is already pending is kept (first write wins).
LoginWithGoogleLegacy_KeepsOlder ==
    /\ FreshIdTokens # {}
    /\ pendingGoogleAuth' =
          IF pendingGoogleAuth = NoPending
          THEN [idToken |-> FreshIdToken, userEmail |-> Null]
          ELSE pendingGoogleAuth
    /\ last' = Segment("loginWithGoogle", "call", "resolved",
                       Task("loginWithGoogle", FreshIdToken, Null),
                       <<Eff("setPendingGoogleAuth", "credential")>>,
                       [needsRoleSelection |-> TRUE, userEmail |-> Null])
    /\ UNCHANGED <<user, loading, localStorage, startup, inflight, capacity, mobile,
                   redirectArmed, exchanged>>

\* ------------------------------------------------------- Google sign-in
\* loginWithGoogle(legacyCredential): the credential is stored at once.
LoginWithGoogleLegacy ==
    /\ FreshIdTokens # {}
    /\ pendingGoogleAuth' = [idToken |-> FreshIdToken, userEmail |-> Null]
    /\ last' = Segment("loginWithGoogle", "call", "resolved",
                       Task("loginWithGoogle", FreshIdToken, Null),
                       <<Eff("setPendingGoogleAuth", "credential")>>,
                       [needsRoleSelection |-> TRUE, userEmail |-> Null])
    /\ UNCHANGED <<user, loading, localStorage, startup, inflight, capacity, mobile,
                   redirectArmed, exchanged>>

\* loginWithGoogle(): suspended in firebaseGoogleSignIn().
LoginWithGoogleCall ==
    /\ CanSuspend
    /\ inflight' = Suspend(Task("loginWithGoogle", NoToken, Null))
    /\ last' = Segment("loginWithGoogle", "call", "suspended",
                       Task("loginWithGoogle", NoToken, Null),
                       <<Eff("signInWithGoogle", IF mobile THEN "redirect" ELSE "popup")>>,
                       NoRet)
    /\ UNCHANGED <<user, loading, pendingGoogleAuth, localStorage, startup,
                   capacity, mobile, redirectArmed, exchanged>>

\* Variant: the e-mail of the credential is not kept with the token.
LoginWithGoogleCredential_DropsEmail ==
    LET t == Task("loginWithGoogle", NoToken, Null) IN
    /\ ~mobile
    /\ Suspended(t)
    /\ CopiesIn(t, inflight) = 1
    /\ FreshIdTokens # {}
    /\ inflight' = Resume(t)
    /\ pendingGoogleAuth' = [idToken |-> FreshIdToken, userEmail |-> Null]
    /\ last' = Segment("loginWithGoogle", "resume", "resolved",
                       Task("loginWithGoogle", FreshIdToken, Null),
                       <<Eff("setPendingGoogleAuth", "credential")>>,
                       [needsRoleSelection |-> TRUE, userEmail |-> UserEmail])
    /\ UNCHANGED <<user, loading, localStorage, startup, capacity, mobile,
                   redirectArmed, exchanged>>

\* Variant: a credential comes straight back on every class of device.
LoginWithGoogleCredential_AnyDevice ==
    LET t == Task("loginWithGoogle", NoToken, Null) IN
    /\ Suspended(t)
    /\ CopiesIn(t, inflight) = 1
    /\ FreshIdTokens # {}
    /\ inflight' = Resume(t)
    /\ pendingGoogleAuth' = [idToken |-> FreshIdToken, userEmail |-> UserEmail]
    /\ last' = Segment("loginWithGoogle", "resume", "resolved",
                       Task("loginWithGoogle", FreshIdToken, Null),
                       <<Eff("setPendingGoogleAuth", "credential")>>,
                       [needsRoleSelection |-> TRUE, userEmail |-> UserEmail])
    /\ UNCHANGED <<user, loading, localStorage, startup, capacity, mobile,
                   redirectArmed, exchanged>>
\* Variant: the credential is also cached in the durable store.
LoginWithGoogleCredential_PersistsToken ==
    LET t == Task("loginWithGoogle", NoToken, Null) IN
    /\ ~mobile
    /\ Suspended(t)
    /\ CopiesIn(t, inflight) = 1
    /\ FreshIdTokens # {}
    /\ inflight' = Resume(t)
    /\ pendingGoogleAuth' = [idToken |-> FreshIdToken, userEmail |-> UserEmail]
    /\ localStorage' = [localStorage EXCEPT !.accessToken = FreshIdToken]
    /\ last' = Segment("loginWithGoogle", "resume", "resolved",
                       Task("loginWithGoogle", FreshIdToken, Null),
                       <<Eff("setPendingGoogleAuth", "credential")>>,
                       [needsRoleSelection |-> TRUE, userEmail |-> UserEmail])
    /\ UNCHANGED <<user, loading, startup, capacity, mobile, redirectArmed,
                   exchanged>>

\* The popup returned a credential.  The provider allows one popup request
\* at a time (auth/cancelled-popup-request), so no other may be pending.
LoginWithGoogleCredential ==
    LET t == Task("loginWithGoogle", NoToken, Null) IN
    /\ ~mobile
    /\ Suspended(t)
    /\ CopiesIn(t, inflight) = 1
    /\ FreshIdTokens # {}
    /\ inflight' = Resume(t)
    /\ pendingGoogleAuth' = [idToken |-> FreshIdToken, userEmail |-> UserEmail]
    /\ last' = Segment("loginWithGoogle", "resume", "resolved",
                       Task("loginWithGoogle", FreshIdToken, Null),
                       <<Eff("setPendingGoogleAuth", "credential")>>,
                       [needsRoleSelection |-> TRUE, userEmail |-> UserEmail])
    /\ UNCHANGED <<user, loading, localStorage, startup, capacity, mobile, redirectArmed,
                   exchanged>>
\* Variant: the deferred sign-in asks for a role selection all the same.
LoginWithGoogleDeferred_SignalsRole ==
    LET t == Task("loginWithGoogle", NoToken, Null) IN
    /\ mobile
    /\ Suspended(t)
    /\ inflight' = Resume(t)
    /\ redirectArmed' = TRUE
    /\ last' = Segment("loginWithGoogle", "resume", "resolved", t, <<>>,
                       [needsRoleSelection |-> TRUE, userEmail |-> Undefined])
    /\ UNCHANGED <<user, loading, pendingGoogleAuth, localStorage, startup,
                   capacity, mobile, exchanged>>

\* signInWithGoogle returned null: the redirect to the provider is under way.
LoginWithGoogleDeferred ==
    LET t == Task("loginWithGoogle", NoToken, Null) IN
    /\ mobile
    /\ Suspended(t)
    /\ inflight' = Resume(t)
    /\ redirectArmed' = TRUE
    /\ last' = Segment("loginWithGoogle", "resume", "resolved", t, <<>>, NoRet)
    /\ UNCHANGED <<user, loading, pendingGoogleAuth, localStorage, startup,
                   capacity, mobile, exchanged>>

\* ------------------------------------------- signInWithGoogle: its errors
\* The codes signInWithGoogle's switch knows, and two it does not: a
\* provider code outside the switch, and an error with no code at all.
KnownErrorCodes ==
    {"auth/popup-closed-by-user", "auth/popup-blocked",
     "auth/operation-not-allowed", "auth/unauthorized-domain",
     "auth/network-request-failed", "auth/cancelled-popup-request"}
OtherErrorCodes == {"auth/internal-error", Undefined}

\* error.message of the provider's error; "" stands for none (falsy).
RawMessages == {"", "Firebase: Error (auth/...)."}

\* What signInWithPopup, getIdToken or signInWithRedirect may throw.
ProviderErrors ==
    [code : KnownErrorCodes \cup OtherErrorCodes, message : RawMessages]

\* Variant: two codes share one message.
SignInErrorMessage_SharedMessage(code, message) ==
    CASE code = "auth/popup-closed-by-user" ->
            "Sign-in cancelled. Please try again."
      [] code = "auth/popup-blocked" ->
            "Popup blocked by browser. Please allow popups and try again."
      [] code = "auth/operation-not-allowed" ->
            "Google Sign-In is not enabled. Please contact support."
      [] code = "auth/unauthorized-domain" ->
            "This domain is not authorized for Google Sign-In."
      [] code = "auth/network-request-failed" ->
            "Network error. Please check your internet connection."
      [] code = "auth/cancelled-popup-request" ->
            "Sign-in cancelled. Please try again."
      [] OTHER ->
            IF message # "" THEN message
            ELSE "Google sign-in failed. Please try again."

\* The switch on error.code in signInWithGoogle's catch block.
SignInErrorMessage(code, message) ==
    CASE code = "auth/popup-closed-by-user" ->
            "Sign-in cancelled. Please try again."
      [] code = "auth/popup-blocked" ->
            "Popup blocked by browser. Please allow popups and try again."
      [] code = "auth/operation-not-allowed" ->
            "Google Sign-In is not enabled. Please contact support."
      [] code = "auth/unauthorized-domain" ->
            "This domain is not authorized for Google Sign-In."
      [] code = "auth/network-request-failed" ->
            "Network error. Please check your internet connection."
      [] code = "auth/cancelled-popup-request" ->
            "Only one popup request is allowed at a time."
      [] OTHER ->
            IF message # "" THEN message
            ELSE "Google sign-in failed. Please try again."

\* enhancedError: the mapped message, the original code.
EnhancedError(err) ==
    [code |-> err.code, message |-> SignInErrorMessage(err.code, err.message)]
\* Variant: the catch block also drops the pending credential.
LoginWithGoogleThrows_ClearsPending(err) ==
    LET t == Task("loginWithGoogle", NoToken, Null)
        e == EnhancedError(err) IN
    /\ Suspended(t)
    /\ inflight' = Resume(t)
    /\ pendingGoogleAuth' = NoPending
    /\ last' = Segment("loginWithGoogle", "resume", "rejected", t,
                       <<<<"catch", err.message, err.code>>,
                         Eff("toast.error",
                             IF e.message # "" THEN e.message ELSE "Login failed"),
                         <<"throw", e.message, e.code>>>>, NoRet)
    /\ UNCHANGED <<user, loading, localStorage, startup,
                   capacity, mobile, redirectArmed, exchanged>>

\* signInWithGoogle caught `err` and threw its enhanced error; loginWithGoogle
\* toasts error.message || 'Login failed' and throws it on.  The effects
\* are the error caught, the toast, and the error thrown (message, code).
LoginWithGoogleThrows(err) ==
    LET t == Task("loginWithGoogle", NoToken, Null)
        e == EnhancedError(err) IN
    /\ Suspended(t)
    /\ inflight' = Resume(t)
    /\ last' = Segment("loginWithGoogle", "resume", "rejected", t,
                       <<<<"catch", err.message, err.code>>,
                         Eff("toast.error",
                             IF e.message # "" THEN e.message ELSE "Login failed"),
                         <<"throw", e.message, e.code>>>>, NoRet)
    /\ UNCHANGED <<user, loading, pendingGoogleAuth, localStorage, startup,
                   capacity, mobile, redirectArmed, exchanged>>

\* signInWithGoogle threw.  The controller's state does not depend on which
\* error it was: where only the controller is looked at, the user closing
\* the popup stands for all of them.
LoginWithGoogleError ==
    LoginWithGoogleThrows([code |-> "auth/popup-closed-by-user",
                           message |-> "Firebase: Error (auth/...)."])

\* Variant: the navigation is issued before the session is settled.
HandleGoogleLoginEffects_NavigateFirst(resp, fault) ==
    IF fault = "none"
    THEN <<Navigate(Destination(resp.user), "replace")>> \o
         SetTokensEffects(fault) \o
         <<Eff("setUser", "userData"),
           Eff("toast.success", "Welcome to Savitara!")>>
    ELSE SetTokensEffects(fault) \o
         <<Eff("toast.error", "Authentication failed")>>

\* handleGoogleLogin after a 2xx answer: the statements that follow the await.
HandleGoogleLoginEffects(resp, fault) ==
    IF fault = "none"
    THEN SetTokensEffects(fault) \o
         <<Eff("setUser", "userData"),
           Eff("toast.success", "Welcome to Savitara!"),
           Navigate(Destination(resp.user), "replace")>>
    ELSE SetTokensEffects(fault) \o
         <<Eff("toast.error", "Authentication failed")>>

\* handleGoogleLogin after a failed request: a toast, and the error rethrown.
HandleGoogleLoginFailure == <<Eff("toast.error", "Authentication failed")>>

\* Variant: the guard is missing and the request goes out with no token.
CompleteGoogleLoginNoPending_Posts(role) ==
    /\ CanSuspend
    /\ inflight' = Suspend(Task("completeGoogleLogin", NoToken, Null))
    /\ last' = Segment("completeGoogleLogin", "call", "suspended",
                       Task("completeGoogleLogin", NoToken, role),
                       <<Eff("POST", "/auth/google")>>, NoRet)
    /\ UNCHANGED <<user, loading, pendingGoogleAuth, localStorage, startup,
                   capacity, mobile, redirectArmed, exchanged>>

\* completeGoogleLogin(role) with nothing pending: a toast and a plain return.
CompleteGoogleLoginNoPending(role) ==
    /\ last' = Segment("completeGoogleLogin", "call", "resolved",
                       Task("completeGoogleLogin", NoToken, role),
                       <<Eff("toast.error", "No pending authentication")>>, NoRet)
    /\ UNCHANGED <<user, loading, pendingGoogleAuth, localStorage, startup,
                   inflight, capacity, mobile, redirectArmed, exchanged>>

\* Variant: the request body carries a fixed role, not the argument.
CompleteGoogleLoginPost_FixedRole(role) ==
    LET t == Task("completeGoogleLogin", pendingGoogleAuth.idToken, role) IN
    /\ CanSuspend
    /\ inflight' =
          Suspend(Task("completeGoogleLogin", pendingGoogleAuth.idToken, Null))
    /\ last' = Segment("completeGoogleLogin", "call", "suspended", t,
                       <<Eff("POST", "/auth/google"), Eff("role", "grihasta")>>,
                       NoRet)
    /\ UNCHANGED <<user, loading, pendingGoogleAuth, localStorage, startup,
                   capacity, mobile, redirectArmed, exchanged>>

\* completeGoogleLogin(role) with a credential pending: POST /auth/google
\* with { id_token: pendingGoogleAuth.idToken, role: role }.  The task of
\* the segment holds the call's token and role argument, the effects the
\* role put into the request body.
CompleteGoogleLoginPost(role) ==
    LET t == Task("completeGoogleLogin", pendingGoogleAuth.idToken, role) IN
    /\ CanSuspend
    /\ inflight' =
          Suspend(Task("completeGoogleLogin", pendingGoogleAuth.idToken, Null))
    /\ last' = Segment("completeGoogleLogin", "call", "suspended", t,
                       <<Eff("POST", "/auth/google"), Eff("role", role)>>, NoRet)
    /\ UNCHANGED <<user, loading, pendingGoogleAuth, localStorage, startup,
                   capacity, mobile, redirectArmed, exchanged>>

CompleteGoogleLoginCall ==
    \E role \in Roles :
        IF pendingGoogleAuth = NoPending
        THEN CompleteGoogleLoginNoPending(role)
        ELSE CompleteGoogleLoginPost(role)

\* Variant: the answer to an exchange whose credential is no longer pending
\* is thrown away.
CompleteGoogleLoginOk_DropsCancelled ==
    \E t \in BagToSet(inflight), resp \in Responses :
        /\ t.op = "completeGoogleLogin"
        /\ inflight' = Resume(t)
        /\ exchanged' = [exchanged EXCEPT ![t.idToken] = IF @ = 0 THEN 1 ELSE 2]
        /\ IF pendingGoogleAuth.idToken = t.idToken
           THEN /\ localStorage' = SetTokens(localStorage, resp, "none")
                /\ user' = resp.user
                /\ pendingGoogleAuth' = NoPending
                /\ last' = Segment("completeGoogleLogin", "resume", "resolved",
                                   t, <<Eff("response", "2xx")>> \o
                                   HandleGoogleLoginEffects(resp, "none") \o
                                   <<Eff("setPendingGoogleAuth", Null)>>, NoRet)
           ELSE /\ last' = Segment("completeGoogleLogin", "resume", "resolved",
                                   t, <<Eff("response", "2xx")>>, NoRet)
                /\ UNCHANGED <<localStorage, user, pendingGoogleAuth>>
        /\ UNCHANGED <<loading, startup, capacity, mobile, redirectArmed>>

\* POST /auth/google answered 2xx.
CompleteGoogleLoginOk ==
    \E t \in BagToSet(inflight), resp \in Responses :
        /\ t.op = "completeGoogleLogin"
        /\ inflight' = Resume(t)
        /\ exchanged' = [exchanged EXCEPT ![t.idToken] = IF @ = 0 THEN 1 ELSE 2]
        /\ localStorage' = SetTokens(localStorage, resp, "none")
        /\ user' = resp.user
        /\ pendingGoogleAuth' = NoPending
        /\ last' = Segment("completeGoogleLogin", "resume", "resolved", t,
                           <<Eff("response", "2xx")>> \o
                           HandleGoogleLoginEffects(resp, "none") \o
                           <<Eff("setPendingGoogleAuth", Null)>>, NoRet)
        /\ UNCHANGED <<loading, startup, capacity, mobile, redirectArmed>>

\* POST /auth/google answered 2xx and a localStorage.setItem threw: both
\* catch blocks report, the error is thrown on, the credential stays pending.
CompleteGoogleLoginStorageFault ==
    \E t \in BagToSet(inflight), resp \in Responses, fault \in StorageFaults :
        /\ t.op = "completeGoogleLogin"
        /\ inflight' = Resume(t)
        /\ exchanged' = [exchanged EXCEPT ![t.idToken] = IF @ = 0 THEN 1 ELSE 2]
        /\ localStorage' = SetTokens(localStorage, resp, fault)
        /\ last' = Segment("completeGoogleLogin", "resume", "rejected", t,
                           <<Eff("response", "2xx")>> \o
                           HandleGoogleLoginEffects(resp, fault) \o
                           <<Eff("toast.error", "error.message")>>, NoRet)
        /\ UNCHANGED <<user, loading, pendingGoogleAuth, startup, capacity,
                       mobile, redirectArmed>>

\* Variant: the catch block swallows the error.
CompleteGoogleLoginFail_Swallowed ==
    \E t \in BagToSet(inflight) :
        /\ t.op = "completeGoogleLogin"
        /\ inflight' = Resume(t)
        /\ last' = Segment("completeGoogleLogin", "resume", "resolved", t,
                           <<Eff("response", "error")>> \o
                           HandleGoogleLoginFailure \o
                           <<Eff("toast.error", "error.message")>>, NoRet)
        /\ UNCHANGED <<user, loading, pendingGoogleAuth, localStorage, startup,
                       capacity, mobile, redirectArmed, exchanged>>

\* POST /auth/google failed: one toast in handleGoogleLogin, one in
\* completeGoogleLogin, and the error is thrown on.
CompleteGoogleLoginFail ==
    \E t \in BagToSet(inflight) :
        /\ t.op = "completeGoogleLogin"
        /\ inflight' = Resume(t)
        /\ last' = Segment("completeGoogleLogin", "resume", "rejected", t,
                           <<Eff("response", "error")>> \o
                           HandleGoogleLoginFailure \o
                           <<Eff("toast.error", "error.message")>>, NoRet)
        /\ UNCHANGED <<user, loading, pendingGoogleAuth, localStorage, startup,
                       capacity, mobile, redirectArmed, exchanged>>

\* Variant: cancelling also drops the stored session.
CancelGoogleLogin_ClearsSession ==
    /\ pendingGoogleAuth' = NoPending
    /\ localStorage' = RemoveTokens(localStorage)
    /\ last' = Segment("cancelGoogleLogin", "call", "resolved",
                       Task("cancelGoogleLogin", pendingGoogleAuth.idToken, Null),
                       <<Eff("setPendingGoogleAuth", Null)>>, NoRet)
    /\ UNCHANGED <<user, loading, startup, inflight, capacity, mobile,
                   redirectArmed, exchanged>>

\* cancelGoogleLogin(): setPendingGoogleAuth(null).  The task of the segment
\* names the credential it discarded, if there was one.
CancelGoogleLogin ==
    /\ pendingGoogleAuth' = NoPending
    /\ last' = Segment("cancelGoogleLogin", "call", "resolved",
                       Task("cancelGoogleLogin", pendingGoogleAuth.idToken, Null),
                       <<Eff("setPendingGoogleAuth", Null)>>, NoRet)
    /\ UNCHANGED <<user, loading, localStorage, startup, inflight, capacity,
                   mobile, redirectArmed, exchanged>>

\* --------------------------------------------- logout, updateUser, refresh
LogoutCall ==
    /\ CanSuspend
    /\ inflight' = Suspend(Task("logout", NoToken, Null))
    /\ last' = Segment("logout", "call", "suspended", Task("logout", NoToken, Null),
                       <<Eff("POST", "/auth/logout")>>, NoRet)
    /\ UNCHANGED <<user, loading, pendingGoogleAuth, localStorage, startup,
                   capacity, mobile, redirectArmed, exchanged>>

\* POST /auth/logout settled (either way): on to firebaseSignOut().
LogoutApiSettled ==
    LET t == Task("logout", NoToken, Null) IN
    /\ Suspended(t)
    /\ inflight' = Resume(t) (+) SetToBag({Task("logout.firebase", NoToken, Null)})
    /\ \E ok \in BOOLEAN :
        last' = Segment("logout", "resume", "suspended", t,
                        IF ok THEN <<Eff("firebaseSignOut", "")>>
                        ELSE <<Eff("console.error", "Logout API failed"),
                               Eff("firebaseSignOut", "")>>, NoRet)
    /\ UNCHANGED <<user, loading, pendingGoogleAuth, localStorage, startup,
                   capacity, mobile, redirectArmed, exchanged>>
\* Variant: a failed Firebase sign-out skips the removal of the session.
LogoutFinish_FirebaseFailureSkipsRemoval ==
    LET t == Task("logout.firebase", NoToken, Null) IN
    /\ Suspended(t)
    /\ inflight' = Resume(t)
    /\ \E ok \in BOOLEAN :
        /\ localStorage' = IF ok THEN RemoveTokens(localStorage) ELSE localStorage
        /\ user' = IF ok THEN NoUser ELSE user
        /\ last' = Segment("logout", "resume", "resolved", t,
                        (IF ok THEN <<Eff("removeItem", "accessToken"),
                                      Eff("removeItem", "refreshToken"),
                                      Eff("setUser", Null)>>
                         ELSE <<Eff("console.error", "Firebase sign out failed")>>) \o
                        <<Navigate("/login", "push"),
                          Eff("toast.info", "Logged out successfully")>>, NoRet)
    /\ UNCHANGED <<loading, pendingGoogleAuth, startup, capacity, mobile,
                   redirectArmed, exchanged>>

\* firebaseSignOut() settled (either way): the local session is destroyed.
LogoutFinish ==
    LET t == Task("logout.firebase", NoToken, Null) IN
    /\ Suspended(t)
    /\ inflight' = Resume(t)
    /\ localStorage' = RemoveTokens(localStorage)
    /\ user' = NoUser
    /\ \E ok \in BOOLEAN :
        last' = Segment("logout", "resume", "resolved", t,
                        (IF ok THEN <<>>
                         ELSE <<Eff("console.error", "Firebase sign out failed")>>) \o
                        <<Eff("removeItem", "accessToken"),
                          Eff("removeItem", "refreshToken"),
                          Eff("setUser", Null),
                          Navigate("/login", "push"),
                          Eff("toast.info", "Logged out successfully")>>, NoRet)
    /\ UNCHANGED <<loading, pendingGoogleAuth, startup, capacity, mobile,
                   redirectArmed, exchanged>>

UpdateUser ==
    /\ \E u \in UserRecords : user' = u
    /\ last' = Segment("updateUser", "call", "resolved", NoTask,
                       <<Eff("setUser", "userData")>>, NoRet)
    /\ UNCHANGED <<loading, pendingGoogleAuth, localStorage, startup, inflight,
                   capacity, mobile, redirectArmed, exchanged>>

RefreshUserDataCall ==
    /\ CanSuspend
    /\ inflight' = Suspend(Task("refreshUserData", NoToken, Null))
    /\ last' = Segment("refreshUserData", "call", "suspended",
                       Task("refreshUserData", NoToken, Null),
                       <<Eff("GET", "/auth/me")>>, NoRet)
    /\ UNCHANGED <<user, loading, pendingGoogleAuth, localStorage, startup,
                   capacity, mobile, redirectArmed, exchanged>>

RefreshUserDataOk ==
    LET t == Task("refreshUserData", NoToken, Null) IN
    /\ Suspended(t)
    /\ inflight' = Resume(t)
    /\ \E u \in UserRecords : user' = u
    /\ last' = Segment("refreshUserData", "resume", "resolved", t,
                       <<Eff("response", "2xx"), Eff("setUser", "userData")>>, NoRet)
    /\ UNCHANGED <<loading, pendingGoogleAuth, localStorage, startup, capacity, mobile,
                   redirectArmed, exchanged>>

RefreshUserDataFail ==
    LET t == Task("refreshUserData", NoToken, Null) IN
    /\ Suspended(t)
    /\ inflight' = Resume(t)
    /\ last' = Segment("refreshUserData", "resume", "resolved", t,
                       <<Eff("response", "error"),
                         Eff("console.error", "Failed to refresh user data")>>, NoRet)
    /\ UNCHANGED <<user, loading, pendingGoogleAuth, localStorage, startup,
                   capacity, mobile, redirectArmed, exchanged>>

\* ------------------------------------------------------------------ Next
Next ==
    \/ PageLoad /\ UNCHANGED screen
    \/ InitAuthRedirectCredential /\ UNCHANGED screen
    \/ InitAuthNoRedirect /\ UNCHANGED screen
    \/ CheckAuthMeOk /\ UNCHANGED screen
    \/ CheckAuthMeFail /\ UNCHANGED screen
    \/ LoginWithEmailCall /\ UNCHANGED screen
    \/ LoginWithEmailOk /\ UNCHANGED screen
    \/ LoginWithEmailStorageFault /\ UNCHANGED screen
    \/ LoginWithEmailFail /\ UNCHANGED screen
    \/ RegisterWithEmailCall /\ UNCHANGED screen
    \/ RegisterWithEmailOk /\ UNCHANGED screen
    \/ RegisterWithEmailStorageFault /\ UNCHANGED screen
    \/ RegisterWithEmailFail /\ UNCHANGED screen
    \/ LoginWithGoogleLegacy /\ UNCHANGED screen
    \/ LoginWithGoogleCall /\ UNCHANGED screen
    \/ LoginWithGoogleCredential /\ UNCHANGED screen
    \/ LoginWithGoogleDeferred /\ UNCHANGED screen
    \/ LoginWithGoogleError /\ UNCHANGED screen
    \/ CompleteGoogleLoginCall /\ UNCHANGED screen
    \/ CompleteGoogleLoginOk /\ UNCHANGED screen
    \/ CompleteGoogleLoginFail /\ UNCHANGED screen
    \/ CompleteGoogleLoginStorageFault /\ UNCHANGED screen
    \/ CancelGoogleLogin /\ UNCHANGED screen
    \/ LogoutCall /\ UNCHANGED screen
    \/ LogoutApiSettled /\ UNCHANGED screen
    \/ LogoutFinish /\ UNCHANGED screen
    \/ UpdateUser /\ UNCHANGED screen
    \/ RefreshUserDataCall /\ UNCHANGED screen
    \/ RefreshUserDataOk /\ UNCHANGED screen
    \/ RefreshUserDataFail /\ UNCHANGED screen

\* The controller's operations, called from anywhere in the application:
\* they leave the login page's own state alone.
Spec == Init /\ [][Next]_vars

\* The Google sign-in flow taken alone (with startup, page loads and logout),
\* under more concurrency.
InitGoogle == Mounted /\ capacity = MaxGoogleInFlight

NextGoogle ==
    \/ PageLoad /\ UNCHANGED screen
    \/ InitAuthRedirectCredential /\ UNCHANGED screen
    \/ InitAuthNoRedirect /\ UNCHANGED screen
    \/ CheckAuthMeOk /\ UNCHANGED screen
    \/ CheckAuthMeFail /\ UNCHANGED screen
    \/ LoginWithGoogleLegacy /\ UNCHANGED screen
    \/ LoginWithGoogleCall /\ UNCHANGED screen
    \/ LoginWithGoogleCredential /\ UNCHANGED screen
    \/ LoginWithGoogleDeferred /\ UNCHANGED screen
    \/ LoginWithGoogleError /\ UNCHANGED screen
    \/ CompleteGoogleLoginCall /\ UNCHANGED screen
    \/ CompleteGoogleLoginOk /\ UNCHANGED screen
    \/ CompleteGoogleLoginFail /\ UNCHANGED screen
    \/ CompleteGoogleLoginStorageFault /\ UNCHANGED screen
    \/ CancelGoogleLogin /\ UNCHANGED screen
    \/ LogoutCall /\ UNCHANGED screen
    \/ LogoutApiSettled /\ UNCHANGED screen
    \/ LogoutFinish /\ UNCHANGED screen

SpecGoogle == InitGoogle /\ [][NextGoogle]_vars

\* ------------------------------------------------------- the login page
\* The page's own state and every controller state variable but `last`.
controllerVars == <<user, loading, pendingGoogleAuth, localStorage, startup,
                    inflight, capacity, mobile, redirectArmed, exchanged>>

\* The role dialog goes from closed to open: the callbacks of the earlier
\* dismissal are forgotten, `selectedRole` is whatever the component's state
\* holds (useState runs its initialiser at mount only).
ShowRoleDialog(s) ==
    [s EXCEPT !.showRoleDialog = TRUE, !.onSelectRole = FALSE,
              !.onClose = FALSE]

\* The effect on [pendingGoogleAuth]: a credential showing up opens the
\* role dialog of a mounted login page.
PendingDetected(s) == IF s.mounted THEN ShowRoleDialog(s) ELSE s

\* A full page load of the login page: the component state starts over.
LoginPageLoad ==
    /\ PageLoad
    /\ screen' = ScreenInit

\* Startup on the login page; a recovered redirect credential opens the
\* role dialog through the effect on [pendingGoogleAuth].
LoginInitAuthRedirectCredential ==
    /\ InitAuthRedirectCredential
    /\ screen' = PendingDetected(screen)

\* "Continue with Google": the overlay goes on, loginWithGoogle() is awaited.
HandleGoogleSignInCall ==
    /\ screen.mounted
    /\ ~screen.googleLoading
    /\ ~screen.showRoleDialog
    /\ LoginWithGoogleCall
    /\ screen' = [screen EXCEPT !.googleLoading = TRUE]

\* loginWithGoogle() resolved with needsRoleSelection: the overlay goes off
\* and the role dialog opens.
HandleGoogleSignInCredential ==
    /\ screen.mounted
    /\ LoginWithGoogleCredential
    /\ screen' = ShowRoleDialog([screen EXCEPT !.googleLoading = FALSE])

\* loginWithGoogle() resolved with nothing (the browser is leaving for the
\* provider): the overlay stays.
HandleGoogleSignInDeferred ==
    /\ screen.mounted
    /\ LoginWithGoogleDeferred
    /\ UNCHANGED screen

\* loginWithGoogle() threw: the catch block clears the overlay.
HandleGoogleSignInError ==
    \E err \in ProviderErrors :
        /\ screen.mounted
        /\ LoginWithGoogleThrows(err)
        /\ screen' = [screen EXCEPT !.googleLoading = FALSE]

\* The radio group of the open dialog.
DialogSelectRole ==
    \E role \in Roles :
        /\ screen.mounted
        /\ screen.showRoleDialog
        /\ role # screen.selectedRole
        /\ screen' = [screen EXCEPT !.selectedRole = role]
        /\ UNCHANGED <<controllerVars, last>>

\* The Cancel button, a backdrop click or Escape: onClose() alone, and the
\* page closes the dialog.
DialogCancel ==
    /\ screen.mounted
    /\ screen.showRoleDialog
    /\ screen' = [screen EXCEPT !.showRoleDialog = FALSE, !.onClose = TRUE]
    /\ UNCHANGED <<controllerVars, last>>

\* handleRoleSelect(role), from its call to the settling of
\* completeGoogleLogin() or to its await: the dialog closes, the overlay goes
\* on; a call that resolves at once (nothing pending) takes the success
\* branch, which leaves the overlay on.
HandleRoleSelectCall(role) ==
    /\ IF pendingGoogleAuth = NoPending
       THEN CompleteGoogleLoginNoPending(role)
       ELSE CompleteGoogleLoginPost(role)
    /\ screen' = [screen EXCEPT !.showRoleDialog = FALSE,
                                !.googleLoading = TRUE,
                                !.onSelectRole = TRUE, !.onClose = TRUE]
\* Variant: Continue sends the default role, whatever is selected.
DialogContinue_DefaultRole ==
    /\ screen.mounted
    /\ screen.showRoleDialog
    /\ HandleRoleSelectCall("grihasta")

\* The Continue button: handleConfirm calls onSelectRole(selectedRole), which
\* is handleRoleSelect, and then onClose().
DialogContinue ==
    /\ screen.mounted
    /\ screen.showRoleDialog
    /\ HandleRoleSelectCall(screen.selectedRole)

\* completeGoogleLogin() resolved after the exchange: the navigation it
\* issued unmounts the login page with its overlay still on.
HandleRoleSelectOk ==
    /\ CompleteGoogleLoginOk
    /\ screen' = [ScreenInit EXCEPT !.mounted = FALSE]

\* completeGoogleLogin() threw after the exchange failed: the catch block
\* clears the overlay.
HandleRoleSelectFail ==
    /\ CompleteGoogleLoginFail
    /\ screen' = [screen EXCEPT !.googleLoading = FALSE]

\* completeGoogleLogin() threw after a failed write to the store.
HandleRoleSelectStorageFault ==
    /\ CompleteGoogleLoginStorageFault
    /\ screen' = [screen EXCEPT !.googleLoading = FALSE]

InitLogin == Mounted /\ capacity = MaxInFlight

NextLogin ==
    \/ LoginPageLoad
    \/ LoginInitAuthRedirectCredential
    \/ InitAuthNoRedirect /\ UNCHANGED screen
    \/ CheckAuthMeOk /\ UNCHANGED screen
    \/ CheckAuthMeFail /\ UNCHANGED screen
    \/ HandleGoogleSignInCall
    \/ HandleGoogleSignInCredential
    \/ HandleGoogleSignInDeferred
    \/ HandleGoogleSignInError
    \/ DialogSelectRole
    \/ DialogCancel
    \/ DialogContinue
    \/ HandleRoleSelectOk
    \/ HandleRoleSelectFail
    \/ HandleRoleSelectStorageFault
    \/ CancelGoogleLogin /\ UNCHANGED screen

\* What the page waits for does happen: startup runs to its end, the
\* provider answers, the browser that left for the provider comes back, the
\* backend answers. Nothing is assumed about what the user does.
StartupSteps ==
    \/ LoginInitAuthRedirectCredential
    \/ InitAuthNoRedirect /\ UNCHANGED screen
    \/ CheckAuthMeOk /\ UNCHANGED screen
    \/ CheckAuthMeFail /\ UNCHANGED screen

ProviderAnswers ==
    \/ HandleGoogleSignInCredential
    \/ HandleGoogleSignInDeferred
    \/ HandleGoogleSignInError

RedirectReturns ==
    /\ redirectArmed
    /\ screen.googleLoading
    /\ LoginPageLoad

BackendAnswers ==
    \/ HandleRoleSelectOk
    \/ HandleRoleSelectFail
    \/ HandleRoleSelectStorageFault

SpecLogin ==
    /\ InitLogin
    /\ [][NextLogin]_vars
    /\ WF_vars(StartupSteps)
    /\ WF_vars(ProviderAnswers)
    /\ WF_vars(RedirectReturns)
    /\ WF_vars(BackendAnswers)

\* ================================================================ claims
\* Segments the claims speak about.
CompleteCalled == last.op = "completeGoogleLogin" /\ last.phase = "call"
CompleteSettled ==
    last.op = "completeGoogleLogin" /\ last.outcome \in {"resolved", "rejected"}
ExchangeSucceeded ==
    /\ last.op = "completeGoogleLogin"
    /\ last.phase = "resume"
    /\ last.outcome = "resolved"
ExchangeFailed ==
    /\ last.op = "completeGoogleLogin"
    /\ last.phase = "resume"
    /\ Has(last.eff, Eff("response", "error"))
BothTokens ==
    localStorage.accessToken # NoToken /\ localStorage.refreshToken # NoToken
GoogleCallsInFlight ==
    BagCardinality(inflight) -
    (CopiesIn(Task("logout", NoToken, Null), inflight)
     + CopiesIn(Task("logout.firebase", NoToken, Null), inflight)
     + CopiesIn(Task("loginWithEmail", NoToken, Null), inflight)
     + CopiesIn(Task("registerWithEmail", NoToken, Null), inflight)
     + CopiesIn(Task("refreshUserData", NoToken, Null), inflight))
\* The latest segment stored a credential: loginWithGoogle (popup or legacy
\* argument) or the redirect recovery of initAuth.
CredentialArrived ==
    /\ last.task.idToken # NoToken
    /\ \/ last.op = "loginWithGoogle" /\ last.outcome = "resolved"
       \/ last.op = "initAuth" /\ last.phase = "resume"
\* The latest segment established a session (both tokens written, user set)
\* while checkAuth's GET /auth/me is still unanswered.
EstablishedDuringCheck ==
    /\ startup = "me"
    /\ last.op \in {"loginWithEmail", "registerWithEmail", "completeGoogleLogin"}
    /\ last.phase = "resume"
    /\ last.outcome = "resolved"
    /\ Has(last.eff, Eff("setItem", "accessToken"))
    /\ Has(last.eff, Eff("setItem", "refreshToken"))
    /\ Has(last.eff, Eff("setUser", "userData"))

\* loginWithGoogle() resumed with a credential from the popup.
PopupCredentialStored ==
    /\ last.op = "loginWithGoogle"
    /\ last.phase = "resume"
    /\ last.task.idToken # NoToken

\* initAuth resumed with a credential from checkRedirectResult().
RedirectCredentialRecovered ==
    /\ last.op = "initAuth"
    /\ last.phase = "resume"
    /\ last.task.idToken # NoToken

\* checkAuth resumed with a failed GET /auth/me.
IdentityCheckFailed ==
    /\ last.op = "checkAuth"
    /\ last.phase = "resume"
    /\ Has(last.eff, Eff("response", "error"))

\* C1 (P1, single-use credential): once completeGoogleLogin has resolved or
\* rejected, or cancelGoogleLogin has been called, pendingGoogleAuth is null.
C1_PendingEmptyAfterCompletion ==
    (CompleteSettled \/ last.op = "cancelGoogleLogin")
        => pendingGoogleAuth = NoPending

\* C2 (P2): completeGoogleLogin(role) called with nothing pending issues no
\* POST /auth/google and no navigation, and leaves user, both tokens,
\* pendingGoogleAuth and the suspended calls as they were.
C2_NoPendingNoSideEffects ==
    [][(pendingGoogleAuth = NoPending /\ CompleteCalled')
        => /\ UNCHANGED <<user, localStorage, pendingGoogleAuth, inflight,
                          exchanged>>
           /\ Kinds(last'.eff, "POST") = {}
           /\ Kinds(last'.eff, "navigate") = {}
           /\ Kinds(last'.eff, "setItem") = {}]_vars

C2_Witness ==
    /\ CompleteCalled
    /\ last.task.idToken = NoToken
    /\ user # NoUser
    /\ BothTokens

\* C3: completeGoogleLogin(role) called with nothing pending ends in an error
\* the caller can tell from a successful completion: it rejects.
C3_NoPendingRejects ==
    (CompleteCalled /\ last.task.idToken = NoToken) => last.outcome = "rejected"

C5_BothTokensOrNeither ==
    /\ (localStorage.accessToken = NoToken) <=> (localStorage.refreshToken = NoToken)
    /\ ExchangeSucceeded => BothTokens

\* C6 (P5, single in-flight flow): a loginWithGoogle that runs while another
\* Google flow is awaiting the provider or the /auth/google answer never
\* writes a credential into pendingGoogleAuth.
C6_NoSecondCredential ==
    [][(last'.op = "loginWithGoogle"
        /\ Has(last'.eff, Eff("setPendingGoogleAuth", "credential")))
        => GoogleCallsInFlight = (IF last'.phase = "resume" THEN 1 ELSE 0)]_vars

\* C7: user is non-null exactly when both tokens are in the store.
C7_UserIffTokens == (user # NoUser) <=> BothTokens

\* C8: in a successful exchange both tokens are written and user is set
\* before the navigation, nothing waits in between, and exactly one
\* navigation is issued.
C8_SettledBeforeNavigation ==
    ExchangeSucceeded =>
        LET eff == last.eff
            navs == Kinds(eff, "navigate")
        IN  /\ Cardinality(navs) = 1
            /\ \A n \in navs :
                /\ \E i \in 1..(n - 1) : eff[i] = Eff("setItem", "accessToken")
                /\ \E i \in 1..(n - 1) : eff[i] = Eff("setItem", "refreshToken")
                /\ \E i \in 1..(n - 1) : eff[i] = Eff("setUser", "userData")
                /\ \A i \in 1..n : eff[i][1] \notin {"setTimeout", "await"}
            /\ BothTokens
            /\ user # NoUser

C8_Witness ==
    /\ ExchangeSucceeded
    /\ BothTokens
    /\ user # NoUser
    /\ Kinds(last.eff, "navigate") # {}

\* C9: when POST /auth/google fails, no navigation is issued, no token is
\* written, user stays as it was, and completeGoogleLogin rejects.
C9_ExchangeFailureLeavesSession ==
    [][ExchangeFailed'
        => /\ UNCHANGED <<user, localStorage>>
           /\ Kinds(last'.eff, "navigate") = {}
           /\ Kinds(last'.eff, "setItem") = {}
           /\ last'.outcome = "rejected"]_vars

C9_Witness ==
    /\ ExchangeFailed
    /\ last.outcome = "rejected"
    /\ user # NoUser
    /\ BothTokens

\* C10: no identity token is exchanged successfully more than once.
C10_ExchangedAtMostOnce == \A tok \in IdTokens : exchanged[tok] <= 1

\* C11 (scenario A, popup path): when the provider sign-in returns a
\* credential, loginWithGoogle() stores exactly {idToken, userEmail} of it in
\* pendingGoogleAuth, returns {needsRoleSelection: true, userEmail} with the
\* same e-mail, makes no backend call and writes no token.
C11_PopupStoresCredential ==
    PopupCredentialStored =>
        /\ last.outcome = "resolved"
        /\ pendingGoogleAuth =
              [idToken |-> last.task.idToken, userEmail |-> UserEmail]
        /\ last.ret = [needsRoleSelection |-> TRUE,
                       userEmail |-> pendingGoogleAuth.userEmail]
        /\ Kinds(last.eff, "POST") = {}
        /\ Kinds(last.eff, "GET") = {}
        /\ Kinds(last.eff, "setItem") = {}
        /\ Kinds(last.eff, "navigate") = {}

C11_Witness ==
    /\ PopupCredentialStored
    /\ last.ret.needsRoleSelection
    /\ pendingGoogleAuth.userEmail = UserEmail
    /\ ~mobile

\* C12 (scenario B, request content): the POST /auth/google of
\* completeGoogleLogin(role) carries the idToken that was pending when the
\* call was made and the role argument; on success the store holds exactly
\* the access_token and refresh_token of one response.
C12_RequestCarriesPendingTokenAndRole ==
    /\ (CompleteCalled /\ Kinds(last.eff, "POST") # {}) =>
          /\ last.task.idToken = pendingGoogleAuth.idToken
          /\ last.task.idToken \in IdTokens
          /\ Suspended(Task("completeGoogleLogin", last.task.idToken, Null))
          /\ last.task.role \in Roles
          /\ Has(last.eff, Eff("role", last.task.role))
    /\ ExchangeSucceeded =>
          \E resp \in Responses :
              /\ localStorage = [accessToken |-> resp.access_token,
                                 refreshToken |-> resp.refresh_token]
              /\ user = resp.user

C12_Witness ==
    /\ CompleteCalled
    /\ last.task.role = "acharya"
    /\ Has(last.eff, Eff("role", "acharya"))
    /\ last.task.idToken = pendingGoogleAuth.idToken
    /\ pendingGoogleAuth # NoPending

\* C13 (scenario C, cancel): cancelGoogleLogin() called while a credential
\* is pending empties pendingGoogleAuth, makes no backend call, issues no
\* navigation and leaves user and both tokens unchanged; afterwards a new
\* loginWithGoogle() can be started.
C13_CancelOnlyClearsPending ==
    /\ [][(last'.op = "cancelGoogleLogin" /\ pendingGoogleAuth # NoPending)
            => /\ pendingGoogleAuth' = NoPending
               /\ UNCHANGED <<user, localStorage, inflight, exchanged, loading>>
               /\ Kinds(last'.eff, "POST") = {}
               /\ Kinds(last'.eff, "GET") = {}
               /\ Kinds(last'.eff, "navigate") = {}]_vars
    /\ []((last.op = "cancelGoogleLogin" /\ CanSuspend)
            => ENABLED LoginWithGoogleCall)

C13_Witness ==
    /\ last.op = "cancelGoogleLogin"
    /\ last.task.idToken # NoToken
    /\ pendingGoogleAuth = NoPending
    /\ user # NoUser
    /\ BothTokens

\* C14 (scenario E, redirect recovery): when checkRedirectResult() yields a
\* credential at page load, startup stores it in pendingGoogleAuth and sets
\* loading to false with no user action, and the credential is not sent to
\* the backend before completeGoogleLogin(role) is called: a POST
\* /auth/google is only ever issued by a completeGoogleLogin call, with a role.
C14_RedirectRecoveryAwaitsRole ==
    /\ RedirectCredentialRecovered =>
          /\ pendingGoogleAuth =
                [idToken |-> last.task.idToken, userEmail |-> UserEmail]
          /\ loading = FALSE
          /\ startup = "recovered"
          /\ Kinds(last.eff, "POST") = {}
          /\ Kinds(last.eff, "GET") = {}
          /\ exchanged[last.task.idToken] = 0
          /\ \A t \in BagToSet(inflight) : t.idToken # last.task.idToken
    /\ Has(last.eff, Eff("POST", "/auth/google")) =>
          /\ CompleteCalled
          /\ last.task.role \in Roles

C14_Witness ==
    /\ RedirectCredentialRecovered
    /\ pendingGoogleAuth.idToken = last.task.idToken
    /\ loading = FALSE
    /\ BothTokens

\* C15: when startup read both tokens and GET /auth/me failed, then at the
\* end of startup both tokens are removed from the store, user is null and
\* loading is false.
C15_FailedIdentityCheckClearsSession ==
    IdentityCheckFailed =>
        /\ localStorage.accessToken = NoToken
        /\ localStorage.refreshToken = NoToken
        /\ user = NoUser
        /\ loading = FALSE
        /\ startup = "done"
        /\ Has(last.eff, Eff("removeItem", "accessToken"))
        /\ Has(last.eff, Eff("removeItem", "refreshToken"))

C15_Witness ==
    /\ IdentityCheckFailed
    /\ localStorage = EmptyStore
    /\ user = NoUser
    /\ ~loading

\* C17: the write of a redirect-recovered credential (initAuth) and the
\* write of a popup sign-in (loginWithGoogle()) never both happen in one page
\* lifetime: recovery happens only on a device of the redirect class, a popup
\* credential only on one of the popup class, and no popup credential is
\* written in a page lifetime whose startup recovered one.
C17_RecoveryAndPopupExclusive ==
    /\ RedirectCredentialRecovered => mobile
    /\ startup = "recovered" => mobile
    /\ PopupCredentialStored => (~mobile /\ startup # "recovered")

C17_Witness ==
    /\ startup = "recovered"
    /\ last.op = "loginWithGoogle"
    /\ last.phase = "resume"
    /\ last.outcome = "resolved"
    /\ pendingGoogleAuth = NoPending

\* C18: cancelGoogleLogin() called while the POST /auth/google of
\* completeGoogleLogin is in flight does not cancel it: the request stays in
\* flight and can still be answered, and a success that arrives when nothing
\* is pending any more is applied in full (both tokens written, user set,
\* one navigation issued).
C18_CancelDoesNotStopExchange ==
    /\ [][last'.op = "cancelGoogleLogin" => inflight' = inflight]_vars
    /\ [][(pendingGoogleAuth = NoPending /\ ExchangeSucceeded')
            => /\ BothTokens'
               /\ user' # NoUser
               /\ Has(last'.eff, Eff("setItem", "accessToken"))
               /\ Has(last'.eff, Eff("setItem", "refreshToken"))
               /\ Has(last'.eff, Eff("setUser", "userData"))
               /\ Cardinality(Kinds(last'.eff, "navigate")) = 1]_vars
    /\ []((\E t \in BagToSet(inflight) : t.op = "completeGoogleLogin")
            => ENABLED CompleteGoogleLoginOk)

C18_Witness ==
    /\ last.op = "cancelGoogleLogin"
    /\ last.task.idToken # NoToken
    /\ pendingGoogleAuth = NoPending
    /\ Suspended(Task("completeGoogleLogin", last.task.idToken, Null))

\* C16: whenever the login page turns its blocking overlay on for a Google
\* step (handleGoogleSignIn or handleRoleSelect), then on every outcome of
\* the awaited controller call, nothing pending included, eventually a
\* navigation is issued or the overlay is cleared.
C16_OverlayEventuallyResolved ==
    (screen.mounted /\ screen.googleLoading)
        ~> (~screen.googleLoading \/ Kinds(last.eff, "navigate") # {})

\* C19: every way of dismissing the open role dialog (Continue, Cancel,
\* backdrop click or Escape) fires exactly one of the two callbacks,
\* onSelectRole(role) or onClose(): never neither and never both.
C19_DismissalHasOneOutcome ==
    [][(screen.showRoleDialog /\ ~screen'.showRoleDialog /\ last'.op # "mount")
         => (screen'.onSelectRole # screen'.onClose)]_vars

\* C20: every time the role dialog goes from closed to open, also after an
\* earlier open in which 'acharya' was selected and the dialog cancelled, the
\* pre-selected role is 'grihasta'.
C20_OpensPreselectingGrihasta ==
    [][(~screen.showRoleDialog /\ screen'.showRoleDialog)
         => screen'.selectedRole = "grihasta"]_vars

\* C21: every POST /auth/google carries exactly one role, a member of
\* {grihasta, acharya}, and it is the role selected in the open role dialog
\* when the user pressed Continue; no exchange goes out with a missing, a
\* defaulted or another role.
C21_RoleIsTheConfirmedChoice ==
    [][(/\ last'.op = "completeGoogleLogin"
        /\ last'.phase = "call"
        /\ Has(last'.eff, Eff("POST", "/auth/google")))
         => /\ screen.showRoleDialog
            /\ screen.selectedRole \in Roles
            /\ Has(last'.eff, Eff("role", screen.selectedRole))
            /\ Cardinality(Kinds(last'.eff, "role")) = 1
            /\ screen'.onSelectRole]_vars

\* A request went out with 'acharya', the non-default role, after Continue.
C21_Witness ==
    /\ last.op = "completeGoogleLogin"
    /\ last.phase = "call"
    /\ Has(last.eff, Eff("POST", "/auth/google"))
    /\ Has(last.eff, Eff("role", "acharya"))
    /\ screen.onSelectRole
    /\ screen.selectedRole = "acharya"

\* C22: signInWithGoogle maps each of the six provider codes it knows to a
\* fixed message (the same whatever the provider's own message), the six
\* messages are pairwise distinct, any other code yields the provider's raw
\* message, or the generic fallback when there is none, and the error
\* thrown keeps the original code.
C22_ProviderErrorTaxonomy ==
    /\ \A c1, c2 \in KnownErrorCodes, m1, m2 \in RawMessages :
          (SignInErrorMessage(c1, m1) = SignInErrorMessage(c2, m2)) <=> (c1 = c2)
    /\ (last.op = "loginWithGoogle" /\ last.outcome = "rejected")
         => \E i, j \in 1..Len(last.eff) :
              LET caught == last.eff[i]
                  thrown == last.eff[j] IN
              /\ caught[1] = "catch"
              /\ thrown[1] = "throw"
              /\ thrown[3] = caught[3]
              /\ caught[3] \in KnownErrorCodes
                   => /\ thrown[2] = SignInErrorMessage(caught[3], "")
                      /\ thrown[2] \notin RawMessages
              /\ caught[3] \notin KnownErrorCodes
                   => thrown[2] = IF caught[2] # "" THEN caught[2]
                                  ELSE "Google sign-in failed. Please try again."

\* A second popup request was refused, and an error with neither code
\* nor message fell back to the generic text.
C22_Witness ==
    /\ last.op = "loginWithGoogle"
    /\ last.outcome = "rejected"
    /\ \/ Has(last.eff, <<"throw", "Only one popup request is allowed at a time.",
                         "auth/cancelled-popup-request">>)
       \/ Has(last.eff, <<"throw", "Google sign-in failed. Please try again.",
                         Undefined>>)
    /\ screen.mounted
    /\ ~screen.googleLoading

\* C23: on a mobile-class device signInWithGoogle takes the redirect strategy
\* and yields the deferred signal, otherwise the popup strategy and a
\* credential; on the deferred signal loginWithGoogle() returns without a
\* role-selection signal, leaves pendingGoogleAuth, user and the tokens as
\* they were and makes no backend call.
C23_DeferredSignIn ==
    [][/\ (last'.op = "loginWithGoogle" /\ last'.phase = "call"
              /\ last'.outcome = "suspended")
            => Has(last'.eff, Eff("signInWithGoogle",
                                  IF mobile THEN "redirect" ELSE "popup"))
       /\ (last'.op = "loginWithGoogle" /\ last'.phase = "resume"
              /\ last'.outcome = "resolved")
            => IF mobile
               THEN /\ last'.task.idToken = NoToken
                    /\ last'.ret = NoRet
                    /\ pendingGoogleAuth' = pendingGoogleAuth
                    /\ user' = user
                    /\ localStorage' = localStorage
                    /\ Kinds(last'.eff, "POST") = {}
                    /\ Kinds(last'.eff, "GET") = {}
                    /\ BagCardinality(inflight') < BagCardinality(inflight)
               ELSE /\ last'.task.idToken # NoToken
                    /\ last'.ret.needsRoleSelection]_vars

\* The deferred signal came back while an earlier credential was pending
\* and a session was stored: all of it is still there.
C23_Witness ==
    /\ mobile
    /\ last.op = "loginWithGoogle"
    /\ last.phase = "resume"
    /\ last.outcome = "resolved"
    /\ last.ret = NoRet
    /\ redirectArmed
    /\ pendingGoogleAuth # NoPending
    /\ BothTokens
    /\ user # NoUser

\* C24: once logout() has completed, accessToken and refreshToken are absent
\* from the store, user is null and a navigation to '/login' has been
\* issued; a failed POST /auth/logout does not stop logout (it goes on to
\* the Firebase sign-out), and neither does a failed Firebase sign-out.
C24_LogoutDestroysSession ==
    /\ (last.op = "logout" /\ last.phase = "resume" /\ last.outcome = "resolved")
         => /\ localStorage = EmptyStore
            /\ user = NoUser
            /\ Has(last.eff, Navigate("/login", "push"))
            /\ Has(last.eff, Eff("removeItem", "accessToken"))
            /\ Has(last.eff, Eff("removeItem", "refreshToken"))
    /\ (last.op = "logout" /\ last.phase = "resume"
           /\ Has(last.eff, Eff("console.error", "Logout API failed")))
         => /\ last.outcome = "suspended"
            /\ Suspended(Task("logout.firebase", NoToken, Null))

\* logout() completed although the Firebase sign-out failed, in a run in
\* which a Google exchange had established a session.
C24_Witness ==
    /\ last.op = "logout"
    /\ last.phase = "resume"
    /\ last.outcome = "resolved"
    /\ Has(last.eff, Eff("console.error", "Firebase sign out failed"))
    /\ \E tok \in IdTokens : exchanged[tok] > 0
    /\ localStorage = EmptyStore

\* C25: when a token write to the store fails during a /auth/google
\* exchange, the attempt ends as a failure (an error is surfaced, nothing is
\* navigated), the user is not made authenticated, and the store is not left
\* holding one token of the new session without the other.
C25_PersistenceFailureIsFatal ==
    [][(/\ last'.op = "completeGoogleLogin"
        /\ last'.phase = "resume"
        /\ Has(last'.eff, Eff("throw", "setItem")))
         => /\ last'.outcome = "rejected"
            /\ Kinds(last'.eff, "toast.error") # {}
            /\ Kinds(last'.eff, "navigate") = {}
            /\ user' = user
            /\ localStorage'.accessToken.n = localStorage'.refreshToken.n]_vars

\* C26: in every reachable state the store's accessToken and refreshToken
\* are absent or session tokens taken from a backend success response, every
\* write to the store happens in a segment that handles such a response, and
\* no Google identity token, pending or not, is ever in the store.
C26_IdentityTokenNeverPersisted ==
    /\ [](/\ localStorage.accessToken.kind \in {Null, "access"}
          /\ localStorage.refreshToken.kind \in {Null, "refresh"}
          /\ \A tok \in IdTokens :
                /\ localStorage.accessToken # tok
                /\ localStorage.refreshToken # tok)
    /\ [][(localStorage' # localStorage /\ localStorage' # EmptyStore)
            => /\ Has(last'.eff, Eff("response", "2xx"))
               /\ last'.op \in {"loginWithEmail", "registerWithEmail",
                                "completeGoogleLogin"}
               /\ \E resp \in Responses :
                     /\ localStorage'.accessToken
                          \in {resp.access_token, localStorage.accessToken}
                     /\ localStorage'.refreshToken
                          \in {resp.refresh_token, localStorage.refreshToken}]_vars

\* A credential from the popup is pending while the store holds the two
\* tokens of a session.
C26_Witness ==
    /\ last.op = "loginWithGoogle"
    /\ last.phase = "resume"
    /\ pendingGoogleAuth.idToken \in IdTokens
    /\ localStorage.accessToken.kind = "access"
    /\ localStorage.refreshToken.kind = "refresh"

\* C27: pendingGoogleAuth holds at most one credential, and the last write
\* wins: when a credential arrives (loginWithGoogle or the redirect
\* recovery), whether or not another one is pending, pendingGoogleAuth holds
\* exactly the new token with the new e-mail, and nothing is queued.
C27_PendingIsLastWriteWins ==
    [][(CredentialArrived' /\ last' # last)
         => /\ pendingGoogleAuth'.idToken = last'.task.idToken
            /\ pendingGoogleAuth'.idToken # pendingGoogleAuth.idToken
            /\ pendingGoogleAuth'.userEmail =
                  IF last'.op = "loginWithGoogle" THEN last'.ret.userEmail
                  ELSE UserEmail
            /\ BagCardinality(inflight') <= BagCardinality(inflight)
            /\ \A t \in BagToSet(inflight') :
                  t.idToken = pendingGoogleAuth.idToken
                     => (t.idToken = NoToken \/ BagIn(t, inflight))]_vars

\* A credential given as argument (no e-mail) arrived while the exchange of
\* an earlier one was still in flight: only the new one is pending.
C27_Witness ==
    /\ CredentialArrived
    /\ last.op = "loginWithGoogle"
    /\ pendingGoogleAuth = [idToken |-> last.task.idToken, userEmail |-> Null]
    /\ \E t \in BagToSet(inflight) :
          /\ t.op = "completeGoogleLogin"
          /\ t.idToken # pendingGoogleAuth.idToken

\* C28: a pending credential is removed only by its own completion or by
\* cancelGoogleLogin: when an exchange succeeds while a newer credential,
\* not the one it exchanged, is pending, that newer credential stays pending.
C28_EarlierSuccessKeepsNewerPending ==
    [][(/\ ExchangeSucceeded'
        /\ BagCardinality(inflight') < BagCardinality(inflight)
        /\ pendingGoogleAuth # NoPending
        /\ pendingGoogleAuth.idToken # last'.task.idToken)
         => pendingGoogleAuth' = pendingGoogleAuth]_vars

\* C29: a session established (tokens written, user set) after checkAuth
\* has sent GET /auth/me and before the answer survives the answer: the
\* completion of checkAuth, success or failure, neither removes the new
\* tokens nor replaces or clears the new user.
C29_SessionSurvivesIdentityCheck ==
    [][(EstablishedDuringCheck /\ startup' = "done")
         => /\ localStorage' = localStorage
            /\ user' = user]_vars

\* C30: each failed Google step raises exactly one error notification: one
\* error toast for a failed POST /auth/google during completeGoogleLogin,
\* one error toast for a failed provider sign-in during loginWithGoogle.
C30_OneErrorToastPerFailure ==
    /\ ExchangeFailed => Cardinality(Kinds(last.eff, "toast.error")) = 1
    /\ (last.op = "loginWithGoogle" /\ last.outcome = "rejected")
         => Cardinality(Kinds(last.eff, "toast.error")) = 1


\* loginWithGoogle() has just rejected on a provider error.
ProviderSignInFailed ==
    /\ last.op = "loginWithGoogle"
    /\ last.phase = "resume"
    /\ last.outcome = "rejected"

\* C31: when the provider sign-in inside loginWithGoogle() fails, the call
\* rejects with the error signInWithGoogle mapped from the provider's, no
\* backend call is made or left waiting by it, and pendingGoogleAuth, user
\* and both stored tokens are exactly as they were before the failure.
C31_ProviderFailureRecoveredLocally ==
    [][(ProviderSignInFailed' /\ last' # last) =>
          LET eff == last'.eff
              caught == {i \in 1..Len(eff) : eff[i][1] = "catch"}
              thrown == {i \in 1..Len(eff) : eff[i][1] = "throw"}
          IN  /\ Cardinality(caught) = 1
              /\ Cardinality(thrown) = 1
              /\ \A c \in caught, th \in thrown :
                    /\ eff[th][2] = SignInErrorMessage(eff[c][3], eff[c][2])
                    /\ eff[th][3] = eff[c][3]
              /\ Kinds(eff, "POST") = {}
              /\ Kinds(eff, "GET") = {}
              /\ inflight' = Resume(last'.task)
              /\ pendingGoogleAuth' = pendingGoogleAuth
              /\ user' = user
              /\ localStorage' = localStorage
              /\ exchanged' = exchanged]_vars

C31_Witness ==
    /\ ProviderSignInFailed
    /\ pendingGoogleAuth # NoPending
    /\ BothTokens
    /\ \E i \in 1..Len(last.eff) :
          /\ last.eff[i][1] = "throw"
          /\ last.eff[i][3] = "auth/network-request-failed"


\* Where initAuth stands: waiting for checkRedirectResult(), waiting for
\* GET /auth/me, or returned.
AwaitingRedirectResult == startup \in {"redirect", "returned"}
AwaitingIdentityCheck == startup = "me"
StartupReturned == startup \in {"recovered", "done"}

\* C32: startup terminates with loading cleared.  While the awaited calls
\* return, the wait for the redirect result ends and the wait for
\* GET /auth/me ends; a wait ends only by going on along one of the startup
\* paths or by the page being loaded anew; and on every path on which
\* startup has returned (credential recovered, tokens missing, /auth/me
\* answered, /auth/me failed) loading is false.
C32_StartupClearsLoading ==
    /\ [](StartupReturned => ~loading)
    /\ AwaitingRedirectResult ~> (AwaitingIdentityCheck \/ StartupReturned)
    /\ AwaitingIdentityCheck ~> ~AwaitingIdentityCheck
    /\ [][AwaitingIdentityCheck =>
            \/ AwaitingIdentityCheck'
            \/ startup' = "done" /\ ~loading'
            \/ last'.op = "mount"]_vars
    /\ [][AwaitingRedirectResult =>
            \/ AwaitingRedirectResult'
            \/ AwaitingIdentityCheck' /\ loading'
            \/ StartupReturned' /\ ~loading']_vars

C32_Witness ==
    /\ IdentityCheckFailed
    /\ StartupReturned
    /\ ~loading
    /\ screen.mounted


\* checkAuth() has just run up to its first await or its early return.
CheckAuthCalled ==
    /\ last.op = "checkAuth"
    /\ last.phase = "call"

\* C33: checkAuth issues GET /auth/me only when both accessToken and
\* refreshToken are in the store; when either is missing it makes no
\* backend call, user stays as it was (null, unless updateUser or a login
\* has set it while startup was waiting) and the store is left exactly as
\* it was.
C33_IdentityCheckNeedsBothTokens ==
    [][(CheckAuthCalled' /\ AwaitingRedirectResult) =>
          /\ Kinds(last'.eff, "GET") # {} <=> BothTokens
          /\ Kinds(last'.eff, "POST") = {}
          /\ localStorage' = localStorage
          /\ inflight' = inflight
          /\ BothTokens =>
                /\ Has(last'.eff, Eff("GET", "/auth/me"))
                /\ AwaitingIdentityCheck'
          /\ ~BothTokens =>
                /\ user' = user
                /\ startup' = "done"
                /\ ~loading']_vars

C33_Witness ==
    /\ CheckAuthCalled
    /\ localStorage.accessToken # NoToken
    /\ localStorage.refreshToken = NoToken
    /\ Kinds(last.eff, "GET") = {}
    /\ user = NoUser
    /\ startup = "done"


\* C34: when startup recovers a redirect credential, the session check is
\* skipped for that page load: the recovering step issues no GET /auth/me
\* and no other request, leaves user and the stored accessToken and
\* refreshToken as they were, and startup stays returned (checkAuth never
\* runs) until the page is loaded anew.
C34_RecoverySkipsSessionCheck ==
    /\ [][(RedirectCredentialRecovered' /\ AwaitingRedirectResult) =>
            /\ Kinds(last'.eff, "GET") = {}
            /\ Kinds(last'.eff, "POST") = {}
            /\ Kinds(last'.eff, "removeItem") = {}
            /\ Kinds(last'.eff, "setItem") = {}
            /\ user' = user
            /\ localStorage' = localStorage
            /\ inflight' = inflight
            /\ startup' = "recovered"]_vars
    /\ [][startup = "recovered" =>
            \/ startup' = "recovered" /\ ~CheckAuthCalled'
            \/ last'.op = "mount"]_vars

C34_Witness ==
    /\ RedirectCredentialRecovered
    /\ startup = "recovered"
    /\ BothTokens
    /\ user = NoUser
    /\ ~loading
    /\ Kinds(last.eff, "GET") = {}


\* The redirect-result lookup threw during this startup and initAuth has
\* gone on.
RedirectLookupThrew ==
    /\ last.op \in {"initAuth", "checkAuth"}
    /\ Has(last.eff, Eff("getRedirectResult", "error"))

\* C35: checkRedirectResult never throws.  Whatever the lookup did (result,
\* no result, thrown provider error), it resolves with a credential or with
\* null; after a thrown provider error it returned null, the catch block of
\* initAuth was not entered, and startup went on to checkAuth as it does
\* when there is no credential to recover.
C35_CheckRedirectResultNeverThrows ==
    /\ [](\A lookup \in RedirectLookups :
            /\ CheckRedirectResult(lookup).outcome = "resolved"
            /\ CheckRedirectResult(lookup).value \in {"credential", Null}
            /\ lookup = "error" => CheckRedirectResult(lookup).value = Null)
    /\ [](RedirectLookupThrew =>
            /\ CheckAuthCalled
            /\ Has(last.eff, Eff("checkRedirectResult", "null"))
            /\ Kinds(last.eff, "console.warn") = {}
            /\ Kinds(last.eff, "setPendingGoogleAuth") = {}
            /\ startup \in {"me", "done"})
    /\ [][(AwaitingRedirectResult /\ RedirectLookupThrew' /\ last' # last) =>
            /\ pendingGoogleAuth' = pendingGoogleAuth
            /\ IF BothTokens
               THEN Has(last'.eff, Eff("GET", "/auth/me")) /\ startup' = "me"
               ELSE startup' = "done" /\ ~loading']_vars

C35_Witness ==
    /\ RedirectLookupThrew
    /\ CheckAuthCalled
    /\ Has(last.eff, Eff("console.error", "Redirect result error"))
    /\ Has(last.eff, Eff("GET", "/auth/me"))
    /\ startup = "me"


\* loginWithEmail() has just resumed from POST /auth/login.
LoginWithEmailSettled ==
    /\ last.op = "loginWithEmail"
    /\ last.phase = "resume"

\* C36: loginWithEmail.  After a 2xx answer of POST /auth/login that the
\* call resolves on, both tokens of the answer were written and user was
\* set before the one navigation, which goes to '/' when the returned user
\* is onboarded (onboarded or onboarding_completed truthy) and to
\* '/onboarding' otherwise.  After a failed POST no token is written, user
\* and the store are as they were, nothing navigates and the call rejects.
C36_LoginWithEmail ==
    [][(LoginWithEmailSettled' /\ last' # last) =>
          LET eff == last'.eff
              navs == Kinds(eff, "navigate")
          IN  /\ (Has(eff, Eff("response", "2xx")) /\ last'.outcome = "resolved") =>
                    /\ Cardinality(navs) = 1
                    /\ \A n \in navs :
                          /\ \E i \in 1..(n - 1) : eff[i] = Eff("setItem", "accessToken")
                          /\ \E i \in 1..(n - 1) : eff[i] = Eff("setItem", "refreshToken")
                          /\ \E i \in 1..(n - 1) : eff[i] = Eff("setUser", "userData")
                          /\ eff[n][2] = (IF user'.onboarded = "true"
                                             \/ user'.onboarding_completed = "true"
                                          THEN "/" ELSE "/onboarding")
                    /\ user' # NoUser
                    /\ \E resp \in Responses :
                          /\ user' = resp.user
                          /\ localStorage'.accessToken = resp.access_token
                          /\ localStorage'.refreshToken = resp.refresh_token
              /\ Has(eff, Eff("response", "error")) =>
                    /\ last'.outcome = "rejected"
                    /\ navs = {}
                    /\ Kinds(eff, "setItem") = {}
                    /\ Kinds(eff, "setUser") = {}
                    /\ localStorage' = localStorage
                    /\ user' = user
              /\ Has(eff, Eff("response", "2xx")) \/ Has(eff, Eff("response", "error"))
              /\ inflight' = Resume(last'.task)]_vars

C36_Witness ==
    /\ LoginWithEmailSettled
    /\ last.outcome = "resolved"
    /\ BothTokens
    /\ user.onboarded # "true"
    /\ user.onboarding_completed # "true"
    /\ Has(last.eff, Navigate("/onboarding", "push"))

====
